---- MODULE Spec2Model ----
(***************************************************************************)
(* The unsafe-to-safe rewrite of                                           *)
(*   crates/ide-assists/src/handlers/convert_unsafe_to_safe.rs             *)
(* and its preview in crates/ide/src/hover/render.rs.                      *)
(*                                                                         *)
(* A document is a syntax tree: every node carries its kind, its text and  *)
(* its children (nodes and tokens, whitespace included); a node is named   *)
(* by its path from the root, text is a string and a text range is a pair  *)
(* of character offsets.  The root is the body block of the enclosing      *)
(* function.                                                               *)
(***************************************************************************)
EXTENDS Integers, Sequences, FiniteSets, TLC

VARIABLES doc, unsafe_expr, nodes, idx, acc, pc, last, applied, hover

vars == <<doc, unsafe_expr, nodes, idx, acc, pc, last, applied, hover>>

(***************************************************************************)
(* Option values: None, or Some(x).                                        *)
(***************************************************************************)
None == <<>>
Some(x) == <<x>>
IsSome(o) == Len(o) = 1
Unwrap(o) == o[1]

(***************************************************************************)
(* Text.                                                                   *)
(***************************************************************************)
\* str::contains: pat occurs in s as a substring
Contains(s, pat) ==
    \E i \in 1..(Len(s) - Len(pat) + 1) : SubSeq(s, i, i + Len(pat) - 1) = pat

\* str::rfind('\n'): the last position of a line break in s, 0 when there is none
RFindNewline(s) ==
    LET hits == {i \in 1..Len(s) : SubSeq(s, i, i) = "\n"}
    IN IF hits = {} THEN 0 ELSE CHOOSE i \in hits : \A j \in hits : j <= i

RECURSIVE Spaces(_)
Spaces(n) == IF n <= 0 THEN "" ELSE " " \o Spaces(n - 1)

(***************************************************************************)
(* Syntax trees.                                                           *)
(***************************************************************************)
RECURSIVE CatText(_, _)
CatText(kids, i) == IF i > Len(kids) THEN "" ELSE kids[i].text \o CatText(kids, i + 1)

Tok(s) == [kind |-> "TOKEN", text |-> s, kids |-> <<>>]
Ws(s) == [kind |-> "WHITESPACE", text |-> s, kids |-> <<>>]
Nd(k, kids) == [kind |-> k, text |-> CatText(kids, 1), kids |-> kids]

IsToken(n) == n.kind \in {"TOKEN", "WHITESPACE"}

\* the kinds ast::Expr::cast and ast::Pat::cast accept, among those the documents use
ExprKinds == {"PATH_EXPR", "CALL_EXPR", "METHOD_CALL_EXPR", "INDEX_EXPR", "LITERAL",
              "REF_EXPR", "CAST_EXPR", "RANGE_EXPR", "BLOCK_EXPR"}
PatKinds == {"IDENT_PAT"}

(***************************************************************************)
(* Documents.  The function body holds the statements pre, then the unsafe *)
(* block with the statements inner, then the statements post.  As the      *)
(* parser builds it, the unsafe block is wrapped in an EXPR_STMT when a    *)
(* statement follows it and is the tail expression of the body (a child of *)
(* its STMT_LIST) when none does; in the same way the last statement of    *)
(* the unsafe block written without `;` is a tail expression.              *)
(***************************************************************************)
NameRef(s) == Nd("NAME_REF", <<Tok(s)>>)
PathExpr1(s) == Nd("PATH_EXPR", <<Nd("PATH", <<Nd("PATH_SEGMENT", <<NameRef(s)>>)>>)>>)
PathExpr2(a, b) ==
    Nd("PATH_EXPR", <<Nd("PATH", <<Nd("PATH", <<Nd("PATH_SEGMENT", <<NameRef(a)>>)>>),
                                   Tok("::"),
                                   Nd("PATH_SEGMENT", <<NameRef(b)>>)>>)>>)
Lit(s) == Nd("LITERAL", <<Tok(s)>>)
Args0 == Nd("ARG_LIST", <<Tok("("), Tok(")")>>)
Args1(a) == Nd("ARG_LIST", <<Tok("("), a, Tok(")")>>)
Args3(a, b, c) ==
    Nd("ARG_LIST", <<Tok("("), a, Tok(","), Ws(" "), b, Tok(","), Ws(" "), c, Tok(")")>>)
MethodCall(recv, name, args) == Nd("METHOD_CALL_EXPR", <<recv, Tok("."), NameRef(name), args>>)
Index(base, i) == Nd("INDEX_EXPR", <<PathExpr1(base), Tok("["), i, Tok("]")>>)
Range(a, b) == Nd("RANGE_EXPR", <<Lit(a), Tok(".."), Lit(b)>>)
PtrType(m) ==
    Nd("PTR_TYPE", <<Tok("*"), Tok(m), Ws(" "),
                     Nd("PATH_TYPE", <<Nd("PATH", <<Nd("PATH_SEGMENT", <<NameRef("i32")>>)>>)>>)>>)
RefExpr(e) == Nd("REF_EXPR", <<Tok("&"), e>>)
RefMutExpr(e) == Nd("REF_EXPR", <<Tok("&"), Tok("mut"), Ws(" "), e>>)
CastExpr(e, ty) == Nd("CAST_EXPR", <<e, Ws(" "), Tok("as"), Ws(" "), ty>>)
ExprStmt(e) == Nd("EXPR_STMT", <<e, Tok(";")>>)
LetStmt(pat, init) ==
    Nd("LET_STMT", <<Tok("let"), Ws(" "), pat, Ws(" "), Tok("="), Ws(" "), init, Tok(";")>>)
IdentPat(s) == Nd("IDENT_PAT", <<Nd("NAME", <<Tok(s)>>)>>)
IdentPatMut(s) == Nd("IDENT_PAT", <<Tok("mut"), Ws(" "), Nd("NAME", <<Tok(s)>>)>>)

\* `<b>.set_len(cap)`
SetLenCall(b) == MethodCall(PathExpr1(b), "set_len", Args1(PathExpr1("cap")))
\* `ptr::copy(&<a>[0] as *const i32, &mut <b>[3] as *mut i32, 3)`
PtrCopyCall(a, b) ==
    Nd("CALL_EXPR", <<PathExpr2("ptr", "copy"),
                      Args3(CastExpr(RefExpr(Index(a, Lit("0"))), PtrType("const")),
                            CastExpr(RefMutExpr(Index(b, Lit("3"))), PtrType("mut")),
                            Lit("3"))>>)
\* `ptr::copy_nonoverlapping(src[2..4].as_ptr(), dst[2..4].as_mut_ptr(), src[2..4].len())`
CopyNonOverlapCall ==
    Nd("CALL_EXPR", <<PathExpr2("ptr", "copy_nonoverlapping"),
                      Args3(MethodCall(Index("src", Range("2", "4")), "as_ptr", Args0),
                            MethodCall(Index("dst", Range("2", "4")), "as_mut_ptr", Args0),
                            MethodCall(Index("src", Range("2", "4")), "len", Args0))>>)
\* `let index = <recv>.<get_unchecked or get_unchecked_mut>(5);`
GetUncheckedLet(recv, method) ==
    LetStmt(IdentPat("index"), MethodCall(PathExpr1(recv), method, Args1(Lit("5"))))
\* `foo()`
FooCall == Nd("CALL_EXPR", <<PathExpr1("foo"), Args0>>)
\* `foo(set_len)`: a call whose argument is a variable named set_len
FooSetLenCall == Nd("CALL_EXPR", <<PathExpr1("foo"), Args1(PathExpr1("set_len"))>>)
\* `input.read_into(&mut <b>)`
ReadCall(b) == MethodCall(PathExpr1("input"), "read_into", Args1(RefMutExpr(PathExpr1(b))))
\* `Vec::with_capacity(cap)`
WithCapacityCall == Nd("CALL_EXPR", <<PathExpr2("Vec", "with_capacity"), Args1(PathExpr1("cap"))>>)

\* the statements a document is made of, by name
InnerKinds == {"SetLen", "SetLenOther", "PtrCopy", "CopyNonOverlap", "GetUnchecked",
               "GetUncheckedMut", "Foo", "Read", "FooSetLen"}
\* the inner statements that are expressions, which may stand last without `;`
TailKinds == {"SetLen", "PtrCopy", "Foo"}
OuterKinds == {"LetCap", "LetCapOther", "ExprCap", "LetPlain", "Read", "Foo"}

StmtExpr(k) ==
    CASE k = "SetLen" -> SetLenCall("buffer")
      [] k = "SetLenOther" -> SetLenCall("other")
      [] k = "PtrCopy" -> PtrCopyCall("vec", "vec")
      [] k = "PtrCopyOther" -> PtrCopyCall("vec", "other")
      [] k = "CopyNonOverlap" -> CopyNonOverlapCall
      [] k = "Foo" -> FooCall
      [] k = "FooSetLen" -> FooSetLenCall
      [] k = "Read" -> ReadCall("buffer")
      [] k = "ExprCap" -> Nd("CALL_EXPR", <<PathExpr1("init"), Args1(WithCapacityCall)>>)

Stmt(k) ==
    CASE k = "GetUnchecked" -> GetUncheckedLet("vec", "get_unchecked")
      [] k = "GetUncheckedMut" -> GetUncheckedLet("vec", "get_unchecked_mut")
      [] k = "GetUncheckedMutex" -> GetUncheckedLet("mutex", "get_unchecked")
      [] k = "LetCap" -> LetStmt(IdentPatMut("buffer"), WithCapacityCall)
      [] k = "LetCapOther" -> LetStmt(IdentPatMut("other"), WithCapacityCall)
      [] k = "LetPlain" -> LetStmt(IdentPat("cap"), Lit("100"))
      [] OTHER -> ExprStmt(StmtExpr(k))

\* the statements ks, each preceded by the whitespace ws; with tail, the last one
\* is a tail expression
RECURSIVE StmtsFrom(_, _, _, _)
StmtsFrom(ks, ws, tail, i) ==
    IF i > Len(ks) THEN <<>>
    ELSE <<Ws(ws), IF tail /\ i = Len(ks) THEN StmtExpr(ks[i]) ELSE Stmt(ks[i])>>
         \o StmtsFrom(ks, ws, tail, i + 1)

\* `unsafe { <inner> }`
UnsafeBlock(inner, tail) ==
    Nd("BLOCK_EXPR",
       <<Tok("unsafe"), Ws(" "),
         Nd("STMT_LIST", <<Tok("{")>> \o StmtsFrom(inner, "\n        ", tail, 1)
                         \o <<Ws("\n    "), Tok("}")>>)>>)

\* the body of the function; gap is the whitespace in front of the unsafe block
Document(pre, inner, tail, post, gap) ==
    Nd("BLOCK_EXPR",
       <<Nd("STMT_LIST",
            <<Tok("{")>> \o StmtsFrom(pre, "\n    ", FALSE, 1)
            \o (IF gap = "" THEN <<>> ELSE <<Ws(gap)>>)
            \o <<IF post = <<>> THEN UnsafeBlock(inner, tail)
                 ELSE Nd("EXPR_STMT", <<UnsafeBlock(inner, tail)>>)>>
            \o StmtsFrom(post, "\n    ", FALSE, 1)
            \o <<Ws("\n"), Tok("}")>>)>>)

\* the path of the first token with the text s, in document order
RECURSIVE FindToken(_, _, _)
RECURSIVE FindTokenKids(_, _, _, _)
FindToken(n, p, s) ==
    IF IsToken(n) THEN (IF n.text = s THEN Some(p) ELSE None)
    ELSE FindTokenKids(n, p, s, 1)
FindTokenKids(n, p, s, i) ==
    IF i > Len(n.kids) THEN None
    ELSE LET r == FindToken(n.kids[i], Append(p, i), s)
         IN IF IsSome(r) THEN r ELSE FindTokenKids(n, p, s, i + 1)

(***************************************************************************)
(* The documents the model is run on.                                      *)
(***************************************************************************)
\* the most statements in the unsafe block
MaxInner == 2

RECURSIVE SeqsUpTo(_, _)
SeqsUpTo(S, n) ==
    IF n = 0 THEN {<<>>}
    ELSE SeqsUpTo(S, n - 1)
         \cup {Append(q, x) : q \in {r \in SeqsUpTo(S, n - 1) : Len(r) = n - 1}, x \in S}

\* the statement lists of the unsafe block: one to MaxInner statements, the last one
\* with or without its `;` when it is an expression
InnerSeqs(kinds) == SeqsUpTo(kinds, MaxInner) \ {<<>>}
Tails(inner) == IF inner[Len(inner)] \in TailKinds THEN {FALSE, TRUE} ELSE {FALSE}

\* what stands before and after the unsafe block, and the whitespace in front of it
AssistContexts ==
    {<<pre, post, "\n\n    ">> :
        pre \in {<<"LetCap">>}, post \in {<<>>, <<"Read">>, <<"Foo">>}}
    \cup {<<pre, <<"Read">>, "\n    ">> :
        pre \in {<<>>, <<"LetCap", "ExprCap">>, <<"ExprCap", "LetCap">>,
                 <<"LetCap", "LetCapOther">>, <<"LetCapOther", "LetCap">>}}
    \cup {<<<<"LetCap", "Read">>, <<>>, "\n    ">>, <<<<"LetPlain">>, <<"Foo">>, "">>}

DispatchContexts ==
    {<<pre, post, gap>> :
        pre \in {<<>>, <<"LetPlain">>}, post \in {<<>>, <<"Foo">>}, gap \in {"", "\n\n    "}}
    \cup {<<<<"LetCap">>, <<"Read">>, "\n    ">>, <<<<"LetPlain">>, <<>>, " ">>}

DispatchKinds == {"SetLen", "PtrCopy", "CopyNonOverlap", "GetUnchecked", "GetUncheckedMut",
                  "Foo"}

DocsOf(contexts, kinds) ==
    {Document(c[1], inner[1], inner[2], c[2], c[3]) :
        c \in contexts,
        inner \in {x \in InnerSeqs(kinds) \X BOOLEAN : x[2] \in Tails(x[1])}}

RECURSIVE NodeAt(_, _)
NodeAt(root, p) == IF p = <<>> THEN root ELSE NodeAt(root.kids[Head(p)], Tail(p))

Node(p) == NodeAt(doc, p)
Kind(p) == Node(p).kind
\* SyntaxNode::to_string (Display of a node: its text)
TextOf(p) == Node(p).text

\* SyntaxNode::parent
Parent(p) == IF p = <<>> THEN None ELSE Some(SubSeq(p, 1, Len(p) - 1))

RECURSIVE LenBefore(_, _)
LenBefore(kids, i) == IF i <= 1 THEN 0 ELSE Len(kids[i - 1].text) + LenBefore(kids, i - 1)

RECURSIVE StartOf(_, _)
StartOf(root, p) ==
    IF p = <<>> THEN 0
    ELSE LenBefore(root.kids, Head(p)) + StartOf(root.kids[Head(p)], Tail(p))

\* SyntaxNode::text_range, a pair <<start, end>>
TextRange(p) == LET s == StartOf(doc, p) IN <<s, s + Len(TextOf(p))>>

\* the child nodes (not the tokens) of p, as indices into its kids
NodeIdx(p) == {i \in 1..Len(Node(p).kids) : ~IsToken(Node(p).kids[i])}

\* SyntaxNode::children: the child nodes in document order
RECURSIVE ChildrenFrom(_, _)
ChildrenFrom(p, i) ==
    IF i > Len(Node(p).kids) THEN <<>>
    ELSE (IF i \in NodeIdx(p) THEN <<Append(p, i)>> ELSE <<>>) \o ChildrenFrom(p, i + 1)
Children(p) == ChildrenFrom(p, 1)

\* SyntaxNode::prev_sibling and next_sibling: the nearest sibling that is a node
PrevSibling(p) ==
    IF p = <<>> THEN None
    ELSE LET par == Unwrap(Parent(p))
             c == {i \in NodeIdx(par) : i < p[Len(p)]}
         IN IF c = {} THEN None
            ELSE Some(Append(par, CHOOSE i \in c : \A j \in c : j <= i))
NextSibling(p) ==
    IF p = <<>> THEN None
    ELSE LET par == Unwrap(Parent(p))
             c == {i \in NodeIdx(par) : i > p[Len(p)]}
         IN IF c = {} THEN None
            ELSE Some(Append(par, CHOOSE i \in c : \A j \in c : j >= i))

\* SyntaxNode::siblings(direction): the node itself, then its siblings in that direction
RECURSIVE SiblingsPrev(_)
SiblingsPrev(p) ==
    <<p>> \o (IF IsSome(PrevSibling(p)) THEN SiblingsPrev(Unwrap(PrevSibling(p))) ELSE <<>>)
RECURSIVE SiblingsNext(_)
SiblingsNext(p) ==
    <<p>> \o (IF IsSome(NextSibling(p)) THEN SiblingsNext(Unwrap(NextSibling(p))) ELSE <<>>)

\* SyntaxNode::descendants: the node itself and the nodes below it, in preorder
RECURSIVE Desc(_, _)
RECURSIVE DescKids(_, _, _)
Desc(n, p) == <<p>> \o DescKids(n, p, 1)
DescKids(n, p, i) ==
    IF i > Len(n.kids) THEN <<>>
    ELSE (IF IsToken(n.kids[i]) THEN <<>> ELSE Desc(n.kids[i], Append(p, i)))
         \o DescKids(n, p, i + 1)
Descendants(root, p) == Desc(NodeAt(root, p), p)

\* AstNode::cast: Some(p) when the node has the kind asked for
Cast(p, kinds) == IF Kind(p) \in kinds THEN Some(p) ELSE None
\* Option::and_then(cast) on parent()
ParentAs(p, kinds) == IF IsSome(Parent(p)) THEN Cast(Unwrap(Parent(p)), kinds) ELSE None

\* support::child / support::children: the children of the kinds asked for
ChildrenOf(p, kinds) == SelectSeq(Children(p), LAMBDA c : Kind(c) \in kinds)
NthChildOf(p, kinds, n) ==
    IF Len(ChildrenOf(p, kinds)) >= n THEN Some(ChildrenOf(p, kinds)[n]) ELSE None

\* the text of the tokens before the first token of p, nearest first
RECURSIVE FirstTokenPath(_, _)
FirstTokenPath(n, p) ==
    IF IsToken(n) \/ n.kids = <<>> THEN p
    ELSE FirstTokenPath(n.kids[1], Append(p, 1))

\* the token before the token at path p in the document, None at the start
RECURSIVE LastTokenPath(_, _)
LastTokenPath(n, p) ==
    IF IsToken(n) \/ n.kids = <<>> THEN p
    ELSE LastTokenPath(n.kids[Len(n.kids)], Append(p, Len(n.kids)))
RECURSIVE PrevToken(_)
PrevToken(p) ==
    IF p = <<>> THEN None
    ELSE LET par == Unwrap(Parent(p))
             i == p[Len(p)]
         IN IF i > 1 THEN Some(LastTokenPath(Node(Append(par, i - 1)), Append(par, i - 1)))
            ELSE PrevToken(par)

\* IndentLevel::from_token: the first whitespace token at or before the token that
\* holds a line break gives the level, a quarter of the characters after the break
RECURSIVE IndentFromToken(_)
IndentFromToken(t) ==
    IF Kind(t) = "WHITESPACE" /\ RFindNewline(TextOf(t)) > 0
    THEN (Len(TextOf(t)) - RFindNewline(TextOf(t))) \div 4
    ELSE IF IsSome(PrevToken(t)) THEN IndentFromToken(Unwrap(PrevToken(t))) ELSE 0

\* Indent::indent_level of a node: IndentLevel::from_node
IndentLevel(p) == IndentFromToken(FirstTokenPath(Node(p), p))
\* Display of IndentLevel: four spaces a level
IndentString(level) == Spaces(4 * level)

(***************************************************************************)
(* convert_unsafe_to_safe.rs                                               *)
(***************************************************************************)
UnsafePattern == {"SetVecCapacity", "UnitializedVec", "CopyWithin", "GetUncheck",
                  "GetUncheckMut", "CopyNonOverlap"}

\* impl Display for UnsafePattern
PatternString(pat) ==
    CASE pat = "SetVecCapacity" -> "Vec::with_capacity"
      [] pat = "UnitializedVec" -> "set_len"
      [] pat = "CopyWithin" -> "ptr::copy"
      [] pat = "GetUncheck" -> "get_unchecked"
      [] pat = "GetUncheckMut" -> "get_unchecked_mut"
      [] pat = "CopyNonOverlap" -> "ptr::copy_nonoverlapping"

\* MethodCallExpr::receiver, HasArgList::arg_list, ArgList::args
Receiver(mcall) == NthChildOf(mcall, ExprKinds, 1)
ArgList(call) == NthChildOf(call, {"ARG_LIST"}, 1)
Args(arglist) == ChildrenOf(arglist, ExprKinds)
\* arg_list()?.args().exactly_one().ok()
ExactlyOneArg(call) ==
    IF IsSome(ArgList(call)) /\ Len(Args(Unwrap(ArgList(call)))) = 1
    THEN Some(Args(Unwrap(ArgList(call)))[1]) ELSE None
\* arg_list()?.args().nth(n), n counted from 0
NthArg(call, n) ==
    IF IsSome(ArgList(call)) /\ Len(Args(Unwrap(ArgList(call)))) > n
    THEN Some(Args(Unwrap(ArgList(call)))[n + 1]) ELSE None
\* syntax().children().nth(0)
FirstChild(p) == IF Children(p) = <<>> THEN None ELSE Some(Children(p)[1])

generate_safevec_format(mcall) ==
    IF ~IsSome(Receiver(mcall)) \/ ~IsSome(ExactlyOneArg(mcall)) THEN None
    ELSE Some("let mut " \o TextOf(Unwrap(Receiver(mcall))) \o " = vec![0; "
              \o TextOf(Unwrap(ExactlyOneArg(mcall))) \o "];")

\* the test with the following sibling left out
check_single_expr_prev_only(target_expr) == ~IsSome(PrevSibling(target_expr))

check_single_expr(target_expr) ==
    ~IsSome(PrevSibling(target_expr)) /\ ~IsSome(NextSibling(target_expr))

\* the assist Assists::add registers: its id, label and target, and the operations
\* its closure performs on the edit builder
Assist(target, ops) ==
    [id |-> "convert_unsafe_to_safe", label |-> "Convert Unsafe to Safe",
     target |-> target, ops |-> ops]
Delete(range) == [op |-> "delete", range |-> range, text |-> ""]
Replace(range, text) == [op |-> "replace", range |-> range, text |-> text]
Insert(offset, text) == [op |-> "insert", range |-> <<offset, offset>>, text |-> text]

\* the two ranges taken for one another
delet_replace_swapped(a, let_target, target_range, buf) ==
    Append(a, Assist(target_range, <<Delete(let_target), Replace(target_range, buf)>>))

delet_replace_source_code(a, let_target, target_range, buf) ==
    Append(a, Assist(target_range, <<Delete(target_range), Replace(let_target, buf)>>))

ContainsCapacity(p) == Contains(TextOf(p), PatternString("SetVecCapacity"))

\* the nodes that are no `let` statement passed over
FirstCapacityLet(seq) ==
    LET hits == {i \in 1..Len(seq) : ContainsCapacity(seq[i]) /\ Kind(seq[i]) = "LET_STMT"}
    IN IF hits = {} THEN None ELSE Some(seq[CHOOSE i \in hits : \A j \in hits : i <= j])

\* the first node of seq whose text contains `Vec::with_capacity`, None when there is none
FirstCapacity(seq) ==
    LET hits == {i \in 1..Len(seq) : ContainsCapacity(seq[i])}
    IN IF hits = {} THEN None ELSE Some(seq[CHOOSE i \in hits : \A j \in hits : i <= j])

convert_to_auto_vec_initialization(a, target_expr, unsafe_range, ublock) ==
    LET mcall == ParentAs(target_expr, {"METHOD_CALL_EXPR"})
        buf == generate_safevec_format(Unwrap(mcall))
        stmt == ParentAs(Unwrap(mcall), {"EXPR_STMT"})
        target_range == IF check_single_expr(Unwrap(stmt)) THEN unsafe_range
                        ELSE TextRange(Unwrap(stmt))
        hit == FirstCapacity(SiblingsPrev(Unwrap(Parent(ublock))))
        let_expr == Cast(Unwrap(hit), {"LET_STMT"})
    IN IF ~IsSome(mcall) THEN a
       ELSE IF ~IsSome(buf) THEN a
       ELSE IF ~IsSome(stmt) THEN a
       ELSE IF ~IsSome(Parent(ublock)) THEN a
       ELSE IF ~IsSome(hit) THEN a
       ELSE IF ~IsSome(let_expr) THEN a
       ELSE delet_replace_source_code(a, TextRange(Unwrap(let_expr)), target_range,
                                      Unwrap(buf))

generate_copywithin_string(base_expr, start_pos, end_pos, count_expr) ==
    (base_expr \o ".copy_within(" \o start_pos \o ".." \o end_pos \o ", " \o count_expr
     \o ");") \o "\n"

\* IndexExpr::base and IndexExpr::index
IndexBase(ix) == NthChildOf(ix, ExprKinds, 1)
IndexIndex(ix) == NthChildOf(ix, ExprKinds, 2)

\* Some(<<base_expr, start_pos, end_pos, count_expr>>)
collect_cpy_within_info(mcall, src_expr, dst_expr) ==
    IF ~IsSome(NthArg(mcall, 2)) \/ ~IsSome(IndexBase(src_expr))
       \/ ~IsSome(IndexIndex(src_expr)) \/ ~IsSome(IndexIndex(dst_expr))
    THEN None
    ELSE Some(<<TextOf(Unwrap(IndexBase(src_expr))), TextOf(Unwrap(IndexIndex(src_expr))),
                TextOf(Unwrap(IndexIndex(dst_expr))), TextOf(Unwrap(NthArg(mcall, 2)))>>)

\* args().nth(n)?.syntax().children().nth(0)?.children().nth(0)? cast to IndexExpr
GrandChildIndex(mcall, n) ==
    LET arg == NthArg(mcall, n)
        c1 == FirstChild(Unwrap(arg))
        c2 == FirstChild(Unwrap(c1))
    IN IF ~IsSome(arg) THEN None
       ELSE IF ~IsSome(c1) THEN None
       ELSE IF ~IsSome(c2) THEN None
       ELSE Cast(Unwrap(c2), {"INDEX_EXPR"})

\* Some(<<src_expr, dst_expr>>)
collect_ptr_cpy_info(mcall) ==
    IF ~IsSome(GrandChildIndex(mcall, 0)) \/ ~IsSome(GrandChildIndex(mcall, 1)) THEN None
    ELSE Some(<<Unwrap(GrandChildIndex(mcall, 0)), Unwrap(GrandChildIndex(mcall, 1))>>)

\* TextSize::of('\n')
NewlineSize == 1

\* the statement is left in the block
delet_insert_source_code_keep(a, target_range, position, new_buf) ==
    Append(a, Assist(target_range, <<Insert(position + NewlineSize, new_buf)>>))

delet_insert_source_code(a, target_range, position, new_buf) ==
    Append(a, Assist(target_range,
                     <<Delete(target_range), Insert(position + NewlineSize, new_buf)>>))

generate_copywithin_format(mcall) ==
    LET ptr == collect_ptr_cpy_info(mcall)
        info == collect_cpy_within_info(mcall, Unwrap(ptr)[1], Unwrap(ptr)[2])
    IN IF ~IsSome(ptr) THEN None
       ELSE IF ~IsSome(info) THEN None
       ELSE Some(generate_copywithin_string(Unwrap(info)[1], Unwrap(info)[2],
                                            Unwrap(info)[3], Unwrap(info)[4]))

\* the text put in front of the range, which stays
replace_source_code_in_front(a, target_range, buf) ==
    Append(a, Assist(target_range, <<Insert(target_range[1], buf)>>))

replace_source_code(a, target_range, buf) ==
    Append(a, Assist(target_range, <<Replace(target_range, buf)>>))

\* with no sibling to anchor the insertion the statement is deleted all the same
reindent_expr_unanchored(ublock, a, target_range, buf) ==
    IF ~IsSome(PrevSibling(ublock)) THEN Append(a, Assist(target_range, <<Delete(target_range)>>))
    ELSE delet_insert_source_code(a, target_range, TextRange(Unwrap(PrevSibling(ublock)))[2],
                                  IndentString(IndentLevel(ublock)) \o buf)

reindent_expr(ublock, a, target_range, buf) ==
    IF ~IsSome(PrevSibling(ublock)) THEN a
    ELSE delet_insert_source_code(a, target_range, TextRange(Unwrap(PrevSibling(ublock)))[2],
                                  IndentString(IndentLevel(ublock)) \o buf)

convert_to_copy_within(a, target_expr, unsafe_range, ublock) ==
    LET mcall == ParentAs(target_expr, {"CALL_EXPR"})
        stmt == ParentAs(Unwrap(mcall), {"EXPR_STMT"})
        buf == generate_copywithin_format(Unwrap(mcall))
    IN IF ~IsSome(mcall) THEN a
       ELSE IF ~IsSome(stmt) THEN a
       ELSE IF ~IsSome(buf) THEN a
       ELSE IF check_single_expr(Unwrap(stmt))
            THEN replace_source_code(a, unsafe_range, Unwrap(buf))
            ELSE reindent_expr(ublock, a, TextRange(Unwrap(stmt)), Unwrap(buf))

\* LetStmt::pat and LetStmt::initializer
LetPat(let_expr) == NthChildOf(let_expr, PatKinds, 1)
LetInitializer(let_expr) == NthChildOf(let_expr, ExprKinds, 1)

generate_get_mut(mcall, let_expr) ==
    IF ~IsSome(Receiver(mcall)) \/ ~IsSome(ExactlyOneArg(mcall)) \/ ~IsSome(LetPat(let_expr))
       \/ ~IsSome(LetInitializer(let_expr))
    THEN None
    ELSE Some("let " \o TextOf(Unwrap(LetPat(let_expr))) \o " = "
              \o TextOf(Unwrap(Receiver(mcall)))
              \o (IF Contains(TextOf(Unwrap(LetInitializer(let_expr))), "mut")
                  THEN ".get_mut(" ELSE ".get(")
              \o TextOf(Unwrap(ExactlyOneArg(mcall))) \o ");")

check_single_let_expr(target_expr) ==
    ~IsSome(PrevSibling(target_expr)) /\ ~IsSome(NextSibling(target_expr))

convert_to_get_mut(a, target_expr, unsafe_range, ublock) ==
    LET mcall == ParentAs(target_expr, {"METHOD_CALL_EXPR"})
        let_expr == ParentAs(Unwrap(mcall), {"LET_STMT"})
        buf == generate_get_mut(Unwrap(mcall), Unwrap(let_expr))
    IN IF ~IsSome(mcall) THEN a
       ELSE IF ~IsSome(let_expr) THEN a
       ELSE IF ~IsSome(buf) THEN a
       ELSE IF check_single_let_expr(Unwrap(let_expr))
            THEN replace_source_code(a, unsafe_range, Unwrap(buf))
            ELSE reindent_expr(ublock, a, TextRange(Unwrap(let_expr)), Unwrap(buf))

\* args().nth(n)?.syntax().children().nth(0)? cast to IndexExpr
ChildIndex(mcall, n) ==
    LET arg == NthArg(mcall, n)
        c1 == FirstChild(Unwrap(arg))
    IN IF ~IsSome(arg) THEN None
       ELSE IF ~IsSome(c1) THEN None
       ELSE Cast(Unwrap(c1), {"INDEX_EXPR"})

\* Some(<<src_expr, dst_expr>>)
collect_cpy_nonoverlap_info(mcall) ==
    IF ~IsSome(ChildIndex(mcall, 0)) \/ ~IsSome(ChildIndex(mcall, 1)) THEN None
    ELSE Some(<<Unwrap(ChildIndex(mcall, 0)), Unwrap(ChildIndex(mcall, 1))>>)

generate_copy_from_slice_string(src_expr, dst_expr) ==
    (TextOf(dst_expr) \o ".copy_from_slice(&" \o TextOf(src_expr) \o ");") \o "\n"

generate_copy_from_slice_format(mcall) ==
    LET info == collect_cpy_nonoverlap_info(mcall)
    IN IF ~IsSome(info) THEN None
       ELSE Some(generate_copy_from_slice_string(Unwrap(info)[1], Unwrap(info)[2]))

convert_to_copy_from_slice(a, target_expr, unsafe_range, ublock) ==
    LET mcall == ParentAs(target_expr, {"CALL_EXPR"})
        stmt == ParentAs(Unwrap(mcall), {"EXPR_STMT"})
        buf == generate_copy_from_slice_format(Unwrap(mcall))
    IN IF ~IsSome(mcall) THEN a
       ELSE IF ~IsSome(stmt) THEN a
       ELSE IF ~IsSome(buf) THEN a
       ELSE IF check_single_expr(Unwrap(stmt))
            THEN replace_source_code(a, unsafe_range, Unwrap(buf))
            ELSE reindent_expr(ublock, a, TextRange(Unwrap(stmt)), Unwrap(buf))

ContainsRead(p) == Contains(TextOf(p), "read")

\* the backward scan of check_convert_type with the forward scan nested in it
CompanionsFound(ublock) ==
    \E b \in 1..Len(SiblingsPrev(Unwrap(Parent(ublock)))) :
        /\ ContainsCapacity(SiblingsPrev(Unwrap(Parent(ublock)))[b])
        /\ \E f \in 1..Len(SiblingsNext(Unwrap(Parent(ublock)))) :
               ContainsRead(SiblingsNext(Unwrap(Parent(ublock)))[f])

\* the tests made on substrings
check_convert_type_contains(target_expr, ublock) ==
    IF Contains(TextOf(target_expr), PatternString("UnitializedVec")) /\ ~IsSome(Parent(ublock))
    THEN None
    ELSE IF Contains(TextOf(target_expr), PatternString("UnitializedVec"))
            /\ CompanionsFound(ublock)
    THEN Some("UnitializedVec")
    ELSE IF Contains(TextOf(target_expr), PatternString("CopyWithin")) THEN Some("CopyWithin")
    ELSE IF Contains(TextOf(target_expr), PatternString("GetUncheck")) THEN Some("GetUncheck")
    ELSE IF Contains(TextOf(target_expr), PatternString("GetUncheckMut"))
    THEN Some("GetUncheckMut")
    ELSE IF Contains(TextOf(target_expr), PatternString("CopyNonOverlap"))
    THEN Some("CopyNonOverlap")
    ELSE None

check_convert_type(target_expr, ublock) ==
    IF TextOf(target_expr) = PatternString("UnitializedVec") /\ ~IsSome(Parent(ublock))
    THEN None
    ELSE IF TextOf(target_expr) = PatternString("UnitializedVec") /\ CompanionsFound(ublock)
    THEN Some("UnitializedVec")
    ELSE IF TextOf(target_expr) = PatternString("CopyWithin") THEN Some("CopyWithin")
    ELSE IF TextOf(target_expr) = PatternString("GetUncheck") THEN Some("GetUncheck")
    ELSE IF TextOf(target_expr) = PatternString("GetUncheckMut") THEN Some("GetUncheckMut")
    ELSE IF TextOf(target_expr) = PatternString("CopyNonOverlap") THEN Some("CopyNonOverlap")
    ELSE None

\* Some(<<unsafe_expr, unsafe_range>>): the block of the `unsafe` keyword under the cursor
collect_unsafe_vec_info(root) ==
    LET unsafe_kw == FindToken(root, <<>>, "unsafe")
        parent == Parent(Unwrap(unsafe_kw))
    IN IF ~IsSome(unsafe_kw) THEN None
       ELSE IF ~IsSome(parent) THEN None
       ELSE IF NodeAt(root, Unwrap(parent)).kind # "BLOCK_EXPR" THEN None
       ELSE Some(Unwrap(parent))

\* the range of the node around the block taken for that of the block
unsafe_range_of_parent == TextRange(Unwrap(Parent(unsafe_expr)))

unsafe_range == TextRange(unsafe_expr)

(***************************************************************************)
(* The assist convert_unsafe_to_safe, one step for each turn of its loop   *)
(* over the descendants of the unsafe block.  last records the turn just   *)
(* taken: the descendant handled, what check_convert_type returned for it  *)
(* and how many assists the turn registered.                               *)
(***************************************************************************)
Start(docs) ==
    /\ doc \in docs
    /\ unsafe_expr = Unwrap(collect_unsafe_vec_info(doc))
    /\ nodes = Descendants(doc, unsafe_expr)
    /\ idx = 1
    /\ acc = <<>>
    /\ pc = "scan"
    /\ last = None
    /\ applied = None
    /\ hover = None

Init == Start(DocsOf(AssistContexts, InnerKinds))

target_expr == nodes[idx]
unsafe_type == check_convert_type(target_expr, unsafe_expr)

Handled(a) ==
    /\ acc' = a
    /\ last' = Some([node |-> target_expr, type |-> unsafe_type,
                      added |-> Len(a) - Len(acc)])
    /\ idx' = idx + 1
    /\ UNCHANGED <<doc, unsafe_expr, nodes, pc, applied, hover>>

\* Some(UnsafePattern::UnitializedVec) => convert_to_auto_vec_initialization(..)
AssistUnitializedVec ==
    /\ pc = "scan" /\ idx <= Len(nodes)
    /\ unsafe_type = Some("UnitializedVec")
    /\ Handled(convert_to_auto_vec_initialization(acc, target_expr, unsafe_range, unsafe_expr))

\* None => continue
AssistContinue ==
    /\ pc = "scan" /\ idx <= Len(nodes)
    /\ unsafe_type = None
    /\ Handled(acc)

\* _ => todo!(): the assist panics
AssistTodo ==
    /\ pc = "scan" /\ idx <= Len(nodes)
    /\ unsafe_type \notin {None, Some("UnitializedVec")}
    /\ pc' = "panic"
    /\ last' = Some([node |-> target_expr, type |-> unsafe_type, added |-> 0])
    /\ UNCHANGED <<doc, unsafe_expr, nodes, idx, acc, applied, hover>>

\* the loop is over: return None
AssistReturn ==
    /\ pc = "scan" /\ idx > Len(nodes)
    /\ pc' = "done"
    /\ UNCHANGED <<doc, unsafe_expr, nodes, idx, acc, last, applied, hover>>

Next == AssistUnitializedVec \/ AssistContinue \/ AssistTodo \/ AssistReturn

Spec == Init /\ [][Next]_vars

(***************************************************************************)
(* The same loop with the four arms of the match that the source holds as  *)
(* comments (lines 421 to 424) in force: every idiom is handed to its      *)
(* planner.                                                                *)
(***************************************************************************)
DispatchCopyWithin ==
    /\ pc = "scan" /\ idx <= Len(nodes)
    /\ unsafe_type = Some("CopyWithin")
    /\ Handled(convert_to_copy_within(acc, target_expr, unsafe_range, unsafe_expr))

DispatchGetMut ==
    /\ pc = "scan" /\ idx <= Len(nodes)
    /\ unsafe_type \in {Some("GetUncheckMut"), Some("GetUncheck")}
    /\ Handled(convert_to_get_mut(acc, target_expr, unsafe_range, unsafe_expr))

DispatchCopyFromSlice ==
    /\ pc = "scan" /\ idx <= Len(nodes)
    /\ unsafe_type = Some("CopyNonOverlap")
    /\ Handled(convert_to_copy_from_slice(acc, target_expr, unsafe_range, unsafe_expr))

NextDispatch ==
    \/ AssistUnitializedVec \/ DispatchCopyWithin \/ DispatchGetMut \/ DispatchCopyFromSlice
    \/ AssistContinue \/ AssistReturn

InitDispatch == Start(DocsOf(DispatchContexts, DispatchKinds))

SpecDispatch == InitDispatch /\ [][NextDispatch]_vars

(***************************************************************************)
(* The loop of planners on documents that exercise the extractors and the  *)
(* structural preconditions of the planners: a range copy between two      *)
(* buffers, an accessor on a receiver named `mutex`, a block with no       *)
(* sibling before it, a nearest `Vec::with_capacity` that is no `let`.     *)
(***************************************************************************)
PlanContexts ==
    {<<<<>>, <<>>, "">>, <<<<"LetPlain">>, <<>>, "\n\n    ">>,
     <<<<"LetCap">>, <<"Read">>, "\n    ">>, <<<<"LetCap", "ExprCap">>, <<"Read">>, "\n    ">>}
PlanKinds == {"SetLen", "PtrCopy", "PtrCopyOther", "CopyNonOverlap", "GetUnchecked",
              "GetUncheckedMut", "GetUncheckedMutex", "Foo"}

InitPlan == Start(DocsOf(PlanContexts, PlanKinds))

SpecPlan == InitPlan /\ [][NextDispatch]_vars

(***************************************************************************)
(* The assist as written, on documents where the unsafe block is the       *)
(* initializer of a `let` statement: `let v = unsafe { <inner> };`, with   *)
(* the statements pre before it and post after it.                         *)
(***************************************************************************)
LetDocument(pre, inner, tail, post) ==
    Nd("BLOCK_EXPR",
       <<Nd("STMT_LIST",
            <<Tok("{")>> \o StmtsFrom(pre, "\n    ", FALSE, 1)
            \o <<Ws("\n    "), LetStmt(IdentPat("v"), UnsafeBlock(inner, tail))>>
            \o StmtsFrom(post, "\n    ", FALSE, 1)
            \o <<Ws("\n"), Tok("}")>>)>>)

LetBlockKinds == {"SetLen", "ExprCap", "PtrCopy", "Foo"}
LetBlockDocs ==
    {LetDocument(pre, inner[1], inner[2], post) :
        pre \in {<<>>, <<"LetCap">>}, post \in {<<>>, <<"Read">>},
        inner \in {x \in InnerSeqs(LetBlockKinds) \X BOOLEAN : x[2] \in Tails(x[1])}}

InitLetBlock == Start(LetBlockDocs)

SpecLetBlock == InitLetBlock /\ [][Next]_vars

(***************************************************************************)
(* What the properties speak of.                                           *)
(***************************************************************************)
ToSet(seq) == {seq[i] : i \in 1..Len(seq)}
Finished == pc \in {"done", "panic"}

\* the statement list of the unsafe block and its statements (a tail expression too)
RegionList == Unwrap(NthChildOf(unsafe_expr, {"STMT_LIST"}, 1))
RegionStmts == Children(RegionList)
InRegionStmt(t) == Len(t) > Len(RegionList) /\ SubSeq(t, 1, Len(RegionList)) = RegionList

\* the node that stands for the unsafe block in the enclosing statement list: its
\* EXPR_STMT, or the block itself when it is the tail expression
Holder ==
    IF IsSome(ParentAs(unsafe_expr, {"EXPR_STMT"})) THEN Unwrap(Parent(unsafe_expr))
    ELSE unsafe_expr
\* the sibling statements before the block (nearest first) and after it
Before == Tail(SiblingsPrev(Holder))
After == Tail(SiblingsNext(Holder))

\* s is `<recv>.<name>(<arg>);`
IsMethodStmt(s, name) ==
    /\ Kind(s) = "EXPR_STMT"
    /\ Len(Children(s)) = 1 /\ Kind(Children(s)[1]) = "METHOD_CALL_EXPR"
    /\ \E n \in ToSet(Children(Children(s)[1])) : Kind(n) = "NAME_REF" /\ TextOf(n) = name
\* s is `<path>(<args>);`
IsCallStmt(s, path) ==
    /\ Kind(s) = "EXPR_STMT"
    /\ Len(Children(s)) = 1 /\ Kind(Children(s)[1]) = "CALL_EXPR"
    /\ TextOf(Children(Children(s)[1])[1]) = path
\* s is `let <pat> = <recv>.<name>(<arg>);`
IsLetMethodStmt(s, name) ==
    /\ Kind(s) = "LET_STMT"
    /\ \E m \in ToSet(Children(s)) :
          /\ Kind(m) = "METHOD_CALL_EXPR"
          /\ \E n \in ToSet(Children(m)) : Kind(n) = "NAME_REF" /\ TextOf(n) = name

\* <buf> and <n> of the statement `<buf>.set_len(<n>);`
SetLenBuf(s) == TextOf(Children(Children(s)[1])[1])
SetLenCount(s) ==
    LET call == TextOf(Children(s)[1])
        head == SetLenBuf(s) \o ".set_len("
    IN SubSeq(call, Len(head) + 1, Len(call) - 1)

IsCapacityLet(p) == Kind(p) = "LET_STMT" /\ Contains(TextOf(p), "Vec::with_capacity")
ReadsBuffer(p, b) == Contains(TextOf(p), "read") /\ Contains(TextOf(p), b)

Overlaps(r1, r2) == r1[1] < r2[2] /\ r2[1] < r1[2]
Within(r1, r2) == r2[1] <= r1[1] /\ r1[2] <= r2[2]

\* the range an assist removes from the unsafe block: that of its delete, or of its
\* replace when that is its only operation
RemovedRange(assist) == assist.ops[1].range

(***************************************************************************)
(* Applying a registered assist and classifying again.  The operations of  *)
(* the assist are applied to the tree: text put in becomes a node of the   *)
(* kind SPLICED, whose inner structure the classifier never looks at, and  *)
(* a statement deleted whole leaves the list of its parent.  Then          *)
(* check_convert_type is run over the descendants of the unsafe block of   *)
(* the document so obtained, if it still has one.  applied records the     *)
(* idiom the assist rewrote and whether, before the edit, another          *)
(* statement of the block held a match of that idiom.                      *)
(***************************************************************************)
Spliced(text) == Nd("SPLICED", <<Tok(text)>>)

\* text with the characters of range (offsets counted from base) replaced by new
Splice(text, base, range, new) ==
    SubSeq(text, 1, range[1] - base) \o new \o SubSeq(text, range[2] - base + 1, Len(text))

RECURSIVE ApplyOp(_, _, _)
ApplyOp(n, base, op) ==
    LET r == op.range
        s(i) == base + LenBefore(n.kids, i)
        e(i) == s(i) + Len(n.kids[i].text)
        all == 1..Len(n.kids)
        inside == {i \in all : /\ s(i) <= r[1] /\ r[2] <= e(i)
                               /\ <<s(i), e(i)>> # r
                               /\ ~(r[1] = r[2] /\ r[1] \in {s(i), e(i)})}
        covered == {i \in all : r[1] <= s(i) /\ e(i) <= r[2]}
        lo == CHOOSE i \in covered : \A j \in covered : i <= j
        hi == CHOOSE i \in covered : \A j \in covered : i >= j
        ahead == Cardinality({i \in all : e(i) <= r[1]})
        new == IF op.text = "" THEN <<>> ELSE <<Spliced(op.text)>>
    IN IF IsToken(n) THEN Spliced(Splice(n.text, base, r, op.text))
       ELSE IF inside # {}
       THEN LET i == CHOOSE i \in inside : TRUE
            IN Nd(n.kind, [n.kids EXCEPT ![i] = ApplyOp(n.kids[i], s(i), op)])
       ELSE IF r[1] = r[2]
       THEN Nd(n.kind, SubSeq(n.kids, 1, ahead) \o new
                       \o SubSeq(n.kids, ahead + 1, Len(n.kids)))
       ELSE IF covered # {} /\ s(lo) = r[1] /\ e(hi) = r[2]
       THEN Nd(n.kind, SubSeq(n.kids, 1, lo - 1) \o new
                       \o SubSeq(n.kids, hi + 1, Len(n.kids)))
       ELSE Spliced(Splice(n.text, base, r, op.text))

\* the operations of one edit applied from the end of the document to its start
RECURSIVE ApplyOps(_, _)
ApplyOps(root, ops) ==
    IF ops = {} THEN root
    ELSE LET op == CHOOSE o \in ops : \A q \in ops : o.range[1] >= q.range[1]
         IN ApplyOps(ApplyOp(root, 0, op), ops \ {op})

\* the statement of the unsafe block that holds the node t
StmtOf(t) == SubSeq(t, 1, Len(RegionList) + 1)

\* the assist the turn just taken registered is applied
ApplyAssist ==
    /\ pc = "scan" /\ applied = None
    /\ IsSome(last) /\ Unwrap(last).added = 1
    /\ LET trigger == Unwrap(last).node
           idiom == Unwrap(last).type
           edited == ApplyOps(doc, ToSet(acc[Len(acc)].ops))
           block == collect_unsafe_vec_info(edited)
       IN /\ doc' = edited
          /\ applied' = Some([idiom |-> Unwrap(idiom),
                              others |-> \E i \in 1..Len(nodes) :
                                  /\ InRegionStmt(nodes[i])
                                  /\ StmtOf(nodes[i]) # StmtOf(trigger)
                                  /\ check_convert_type(nodes[i], unsafe_expr) = idiom])
          /\ unsafe_expr' = IF IsSome(block) THEN Unwrap(block) ELSE <<>>
          /\ nodes' = IF IsSome(block) THEN Descendants(edited, Unwrap(block)) ELSE <<>>
          /\ pc' = IF IsSome(block) THEN "classify" ELSE "classified"
    /\ idx' = 1
    /\ last' = None
    /\ UNCHANGED <<acc, hover>>

\* check_convert_type for the next descendant of the unsafe block of the edited document
Reclassify ==
    /\ pc = "classify" /\ idx <= Len(nodes)
    /\ last' = Some([node |-> target_expr, type |-> unsafe_type, added |-> 0])
    /\ idx' = idx + 1
    /\ UNCHANGED <<doc, unsafe_expr, nodes, acc, pc, applied, hover>>

ReclassifyEnd ==
    /\ pc = "classify" /\ idx > Len(nodes)
    /\ pc' = "classified"
    /\ UNCHANGED <<doc, unsafe_expr, nodes, idx, acc, last, applied, hover>>

NextReapply == NextDispatch \/ ApplyAssist \/ Reclassify \/ ReclassifyEnd

ReapplyContexts ==
    {<<<<"LetCap">>, <<"Read">>, "\n    ">>,
     <<<<"LetCapOther", "LetCap">>, <<"Read">>, "\n    ">>,
     <<<<"LetPlain">>, <<>>, "\n    ">>,
     <<<<"LetPlain">>, <<>>, " ">>,
     <<<<"LetPlain">>, <<>>, "">>}

InitReapply == Start(DocsOf(ReapplyContexts, DispatchKinds \cup {"SetLenOther"}))

SpecReapply == InitReapply /\ [][NextReapply]_vars

(***************************************************************************)
(* C12.  Classifying again after an edit.                                  *)
(***************************************************************************)
\* C12: after an assist is applied, check_convert_type returns the idiom the assist
\* rewrote for no descendant of the unsafe block of the edited document.
C12_NoMatchAfterEdit ==
    (IsSome(applied) /\ IsSome(last)) => Unwrap(last).type # Some(Unwrap(applied).idiom)

\* C12 as amended: the same, when before the edit no other statement of the block held
\* a match of the idiom.
C12_NoMatchAfterSoleEdit ==
    (IsSome(applied) /\ ~Unwrap(applied).others /\ IsSome(last))
        => Unwrap(last).type # Some(Unwrap(applied).idiom)

C12_Witness ==
    /\ pc = "classified" /\ IsSome(applied) /\ ~Unwrap(applied).others
    /\ Unwrap(applied).idiom = "UnitializedVec"
    /\ IsSome(last) /\ Unwrap(last).type = None
    /\ \E i \in 1..Len(nodes) : TextOf(nodes[i]) = "foo()"

(***************************************************************************)
(* The hover handler keyword of crates/ide/src/hover/render.rs for the     *)
(* token `unsafe`.  hover holds the two inputs of the request (config:     *)
(* keyword documentation is switched on; std: the module of the keyword is *)
(* found in the standard library with its documentation) and, once the     *)
(* handler has returned, result: None or Some(markup).  render.rs is       *)
(* written against an edition of the handlers that is not among the        *)
(* sources at hand: its signature ReserveVec, its generate_resizevec_format *)
(* and the generators that take the unsafe block as a second argument are  *)
(* modelled from the specification.  The documents hold no statement with  *)
(* the signatures CStringFromVec and CStringLength of that edition.        *)
(***************************************************************************)
generate_description == "Code Suggestion: translating unsafe to safe code"
generate_original == "Original Code: \n\n"
generate_modify == "Modified Code: \n\n"

\* the code fence of three backquotes, written with three quotes
Fence == "'''"

\* fn markup(docs, desc, mod_path) with mod_path None
markup(docs, desc) ==
    Fence \o "rust\n" \o desc \o "\n" \o Fence
    \o (IF IsSome(docs) THEN "\n___\n\n" \o Unwrap(docs) ELSE "")

\* the removal and the addition marker around a text
Removed(text) ==
    "**" \o Fence \o "---" \o Fence \o "** **~~" \o Fence \o text \o Fence \o "~~**"
Added(text) ==
    "**" \o Fence \o "+++" \o Fence \o "** **" \o Fence \o text \o Fence \o "**"
RemovedUnsafe(text) == Removed("unsafe { " \o text \o " };")

ReserveVecString == "reserve"
generate_resizevec_format(mcall) ==
    IF ~IsSome(Receiver(mcall)) \/ ~IsSome(ExactlyOneArg(mcall)) THEN None
    ELSE Some(TextOf(Unwrap(Receiver(mcall))) \o ".resize("
              \o TextOf(Unwrap(ExactlyOneArg(mcall))) \o ", 0);")
generate_copywithin_format_in(mcall, ublock) == generate_copywithin_format(mcall)
generate_copy_from_slice_format_in(mcall, ublock) == generate_copy_from_slice_format(mcall)

format_suggestion_unitialized_vec(mcall, ublock) ==
    LET backward_list ==
            IF Kind(Unwrap(Parent(ublock))) # "STMT_LIST"
            THEN SiblingsPrev(Unwrap(Parent(ublock))) ELSE SiblingsPrev(ublock)
        receiver == TextOf(Unwrap(Receiver(mcall)))
        IsCapacity(p) == ContainsCapacity(p) /\ Contains(TextOf(p), receiver)
        IsReserve(p) == Contains(TextOf(p), ReserveVecString) /\ Contains(TextOf(p), receiver)
        hits == {i \in 1..Len(backward_list) :
                    IsCapacity(backward_list[i]) \/ IsReserve(backward_list[i])}
        iter == backward_list[CHOOSE i \in hits : \A j \in hits : i <= j]
        tail(safe_vec) ==
            "\n\n" \o RemovedUnsafe(TextOf(mcall)) \o "\n\n" \o generate_modify \o safe_vec
    IN IF ~IsSome(Parent(ublock)) THEN None
       ELSE IF hits = {} THEN Some(generate_original \o tail(""))
       ELSE IF IsCapacity(iter)
       THEN IF Kind(iter) # "LET_STMT" \/ ~IsSome(generate_safevec_format(mcall)) THEN None
            ELSE Some(generate_original \o Removed(TextOf(iter)) \o "\n\n"
                      \o tail(Added(Unwrap(generate_safevec_format(mcall)))))
       ELSE IF Kind(iter) # "EXPR_STMT" \/ ~IsSome(generate_resizevec_format(mcall)) THEN None
            ELSE Some(generate_original \o Removed(TextOf(iter)) \o "\n\n"
                      \o tail(Added(Unwrap(generate_resizevec_format(mcall)))))

\* the markup of a suggestion, None when its text is None
Suggestion(us_docs) ==
    IF IsSome(us_docs) THEN Some(markup(us_docs, generate_description)) ELSE None

display_suggestion_uninitialized_vec(target, ublock) ==
    LET mcall == ParentAs(target, {"METHOD_CALL_EXPR"})
    IN IF ~IsSome(mcall) THEN None
       ELSE Suggestion(format_suggestion_unitialized_vec(Unwrap(mcall), ublock))

format_suggestion_ptr_copy(mcall, ublock) ==
    LET buf == generate_copywithin_format_in(mcall, ublock)
    IN IF ~IsSome(buf) THEN None
       ELSE Some(generate_original \o RemovedUnsafe(TextOf(mcall)) \o "\n\n"
                 \o generate_modify \o Added(Unwrap(buf)))

display_suggestion_ptr_copy(target, ublock) ==
    LET mcall == ParentAs(target, {"CALL_EXPR"})
    IN IF ~IsSome(mcall) THEN None
       ELSE Suggestion(format_suggestion_ptr_copy(Unwrap(mcall), ublock))

format_suggestion_ptr_copy_nonoverlapping(mcall, ublock) ==
    LET buf == generate_copy_from_slice_format_in(mcall, ublock)
    IN IF ~IsSome(buf) THEN None
       ELSE Some(RemovedUnsafe(TextOf(mcall)) \o "\n\n" \o Added(Unwrap(buf)))

display_suggestion_ptr_copy_nonoverlapping(target, ublock) ==
    LET mcall == ParentAs(target, {"CALL_EXPR"})
    IN IF ~IsSome(mcall) THEN None
       ELSE Suggestion(format_suggestion_ptr_copy_nonoverlapping(Unwrap(mcall), ublock))

\* the documentation of the keyword in the standard library, and its markup
KeywordDocs == "<the documentation of the keyword unsafe>"
KeywordMarkup == markup(Some(KeywordDocs), "unsafe")

\* `unsafe fn f() <body>`
UnsafeFn(body) ==
    Nd("FN", <<Tok("unsafe"), Ws(" "), Tok("fn"), Ws(" "), Nd("NAME", <<Tok("f")>>),
               Nd("PARAM_LIST", <<Tok("("), Tok(")")>>), Ws(" "), body>>)

HoverContexts ==
    {<<pre, <<"Read">>, "\n    ">> :
        pre \in {<<"LetCap">>, <<"LetCapOther">>, <<"LetCap", "ExprCap">>}}
    \cup {<<<<"LetPlain">>, <<>>, "\n    ">>}
HoverKinds == {"SetLen", "FooSetLen", "PtrCopy", "CopyNonOverlap", "GetUnchecked", "Foo"}
HoverDocs ==
    DocsOf(HoverContexts, HoverKinds)
    \cup {UnsafeFn(d) : d \in DocsOf({<<<<"LetPlain">>, <<>>, "\n    ">>}, {"Foo", "PtrCopy"})}

\* the request: the token `unsafe` of the document is hovered
InitHover ==
    /\ doc \in HoverDocs
    /\ unsafe_expr = Unwrap(Parent(Unwrap(FindToken(doc, <<>>, "unsafe"))))
    /\ nodes = <<>>
    /\ idx = 1
    /\ acc = <<>>
    /\ pc = "hover"
    /\ last = None
    /\ applied = None
    /\ hover \in [config : BOOLEAN, std : BOOLEAN, result : {None}]

HoverReturn(result) ==
    /\ hover' = [hover EXCEPT !.result = result]
    /\ pc' = "hdone"
    /\ UNCHANGED <<doc, unsafe_expr, nodes, idx, acc, applied>>

HoverMatched(result) ==
    /\ HoverReturn(result)
    /\ last' = Some([node |-> target_expr, type |-> unsafe_type, added |-> 0])

\* !config.documentation.is_some() || !config.keywords: return None
HoverDisabled ==
    /\ pc = "hover" /\ ~hover.config
    /\ HoverReturn(None)
    /\ UNCHANGED last

\* token.parent().and_then(ast::BlockExpr::cast)? with a parent that is no block
HoverNotBlock ==
    /\ pc = "hover" /\ hover.config
    /\ Kind(unsafe_expr) # "BLOCK_EXPR"
    /\ HoverReturn(None)
    /\ UNCHANGED last

HoverEnter ==
    /\ pc = "hover" /\ hover.config
    /\ Kind(unsafe_expr) = "BLOCK_EXPR"
    /\ nodes' = Descendants(doc, unsafe_expr)
    /\ pc' = "hscan"
    /\ UNCHANGED <<doc, unsafe_expr, idx, acc, last, applied, hover>>

HoverUnitializedVec ==
    /\ pc = "hscan" /\ idx <= Len(nodes)
    /\ unsafe_type = Some("UnitializedVec")
    /\ HoverMatched(display_suggestion_uninitialized_vec(target_expr, unsafe_expr))

HoverCopyWithin ==
    /\ pc = "hscan" /\ idx <= Len(nodes)
    /\ unsafe_type = Some("CopyWithin")
    /\ HoverMatched(display_suggestion_ptr_copy(target_expr, unsafe_expr))

HoverCopyNonOverlap ==
    /\ pc = "hscan" /\ idx <= Len(nodes)
    /\ unsafe_type = Some("CopyNonOverlap")
    /\ HoverMatched(display_suggestion_ptr_copy_nonoverlapping(target_expr, unsafe_expr))

\* None => continue
HoverContinue ==
    /\ pc = "hscan" /\ idx <= Len(nodes)
    /\ unsafe_type = None
    /\ last' = Some([node |-> target_expr, type |-> unsafe_type, added |-> 0])
    /\ idx' = idx + 1
    /\ UNCHANGED <<doc, unsafe_expr, nodes, acc, pc, applied, hover>>

\* _ => todo!(): the handler panics
HoverTodo ==
    /\ pc = "hscan" /\ idx <= Len(nodes)
    /\ unsafe_type \in {Some("GetUncheck"), Some("GetUncheckMut")}
    /\ pc' = "hpanic"
    /\ last' = Some([node |-> target_expr, type |-> unsafe_type, added |-> 0])
    /\ UNCHANGED <<doc, unsafe_expr, nodes, idx, acc, applied, hover>>

\* after the loop: the documentation of the keyword, None when
\* find_std_module(..)? or docs()? has nothing
HoverKeyword ==
    /\ pc = "hscan" /\ idx > Len(nodes)
    /\ HoverReturn(IF hover.std THEN Some(KeywordMarkup) ELSE None)
    /\ UNCHANGED last

NextHover ==
    \/ HoverDisabled \/ HoverNotBlock \/ HoverEnter
    \/ HoverUnitializedVec \/ HoverCopyWithin \/ HoverCopyNonOverlap
    \/ HoverContinue \/ HoverTodo \/ HoverKeyword

SpecHover == InitHover /\ [][NextHover]_vars

(***************************************************************************)
(* C1.  Scenario A: the unsafe block holds only `<buf>.set_len(<n>);`, a   *)
(* `let` statement holding `Vec::with_capacity` stands before it and a     *)
(* statement reading the buffer follows it.                                *)
(***************************************************************************)
C1_Region ==
    /\ Len(RegionStmts) = 1
    /\ IsMethodStmt(RegionStmts[1], "set_len")
    /\ \E r \in ToSet(After) : ReadsBuffer(r, SetLenBuf(RegionStmts[1]))

\* the one assist of scenario A: the let statement is replaced, the block is deleted
\* and no operation touches a statement after the block
C1_Edit(let_stmt) ==
    /\ acc = <<Assist(unsafe_range,
                      <<Delete(unsafe_range),
                        Replace(TextRange(let_stmt),
                                "let mut " \o SetLenBuf(RegionStmts[1]) \o " = vec![0; "
                                \o SetLenCount(RegionStmts[1]) \o "];")>>)>>
    /\ \A r \in ToSet(After) : \A i \in 1..Len(acc[1].ops) :
           ~Overlaps(acc[1].ops[i].range, TextRange(r))

NearestCapacity == FirstCapacity(SiblingsPrev(Holder))

LetName(l) ==
    LET pat == Unwrap(NthChildOf(l, PatKinds, 1))
    IN TextOf(Unwrap(NthChildOf(pat, {"NAME"}, 1)))

\* a statement before the block binds a variable with `Vec::with_capacity` and a
\* statement after the block reads that buffer
C2_Companions ==
    \E l \in ToSet(Before) :
        /\ IsCapacityLet(l)
        /\ \E r \in ToSet(After) : ReadsBuffer(r, LetName(l))

\* C2: check_convert_type returns the uninitialized-buffer idiom for a trigger only
\* if a sibling statement before the statement of the unsafe block binds a variable
\* with `Vec::with_capacity` and a sibling statement after it reads that buffer; with
\* either one missing the trigger is no match and the turn registers nothing.
C2_MatchOnlyWithCompanions ==
    (IsSome(last) /\ TextOf(Unwrap(last).node) = "set_len" /\ ~C2_Companions)
        => (Unwrap(last).type = None /\ Unwrap(last).added = 0)

(***************************************************************************)
(* C3.  Scenario B: the unsafe block holds only the range copy             *)
(* `ptr::copy(&vec[0] as *const i32, &mut vec[3] as *mut i32, 3);`.        *)
(***************************************************************************)
\* C3: the assist ends with one assist registered, which replaces the range of the
\* unsafe block with `vec.copy_within(0..3, 3);` (with or without a line break).
C3_RangeCopyReplaced ==
    (Finished /\ Len(RegionStmts) = 1 /\ IsCallStmt(RegionStmts[1], "ptr::copy"))
        => \E text \in {"vec.copy_within(0..3, 3);", "vec.copy_within(0..3, 3);\n"} :
               acc = <<Assist(unsafe_range, <<Replace(unsafe_range, text)>>)>>

(***************************************************************************)
(* C4.  No fatal condition.                                                *)
(***************************************************************************)
\* C4: whatever the unsafe block holds, the assist returns and never panics.
C4_NeverPanics == pc # "panic"

(***************************************************************************)
(* C5.  Scenario C: the non-overlapping copy                               *)
(* `ptr::copy_nonoverlapping(src[2..4].as_ptr(), dst[2..4].as_mut_ptr(),   *)
(* src[2..4].len());` with another statement of the block after it.        *)
(***************************************************************************)
\* the operations leave the statements of the block other than s alone
LeavesOthers(assist, s) ==
    \A o \in ToSet(RegionStmts) \ {s} : \A i \in 1..Len(assist.ops) :
        ~Overlaps(assist.ops[i].range, TextRange(o))

\* offset lies above the block with no statement between the two
AboveBlock(offset) ==
    /\ offset <= TextRange(Holder)[1]
    /\ \A b \in ToSet(Before) : TextRange(b)[2] <= offset

\* C5: with the copy statement followed by another statement of the block, and a
\* statement standing before the block, the loop of planners ends with an assist
\* registered that deletes the range of the copy statement and
\* inserts `dst[2..4].copy_from_slice(&src[2..4]);` behind the indentation of the
\* block above the block, and that touches no other statement of the block.
C5_CopyHoisted ==
    \A k \in 1..(Len(RegionStmts) - 1) :
        (pc = "done" /\ Before # <<>>
         /\ IsCallStmt(RegionStmts[k], "ptr::copy_nonoverlapping"))
            => \E i \in 1..Len(acc) : \E offset \in 0..Len(doc.text) :
                   /\ acc[i] = Assist(TextRange(RegionStmts[k]),
                                      <<Delete(TextRange(RegionStmts[k])),
                                        Insert(offset,
                                               IndentString(IndentLevel(unsafe_expr))
                                               \o "dst[2..4].copy_from_slice(&src[2..4]);\n")>>)
                   /\ AboveBlock(offset)
                   /\ LeavesOthers(acc[i], RegionStmts[k])

C7_Replacement(s) ==
    CASE IsCallStmt(s, "ptr::copy") -> "vec.copy_within(0..3, 3);\n"
      [] IsCallStmt(s, "ptr::copy_nonoverlapping") -> "dst[2..4].copy_from_slice(&src[2..4]);\n"
      [] IsLetMethodStmt(s, "get_unchecked_mut") -> "let index = vec.get_mut(5);"
      [] IsLetMethodStmt(s, "get_unchecked") -> "let index = vec.get(5);"

C7_Idiom(s) ==
    \/ IsCallStmt(s, "ptr::copy") \/ IsCallStmt(s, "ptr::copy_nonoverlapping")
    \/ IsLetMethodStmt(s, "get_unchecked_mut") \/ IsLetMethodStmt(s, "get_unchecked")

C8_InsertedBeforeBlock ==
    \A i \in 1..Len(acc) : \A j \in 1..Len(acc[i].ops) :
        acc[i].ops[j].op = "insert"
            => /\ IsSome(PrevSibling(unsafe_expr))
               /\ TextRange(Unwrap(PrevSibling(unsafe_expr)))[2] < acc[i].ops[j].range[1]
               /\ acc[i].ops[j].range[1] <= unsafe_range[1]

(***************************************************************************)
(* C9.  One assist for each match.                                         *)
(***************************************************************************)
\* C9: a turn of the loop for a descendant for which check_convert_type returned an
\* idiom, and that came back from its arm of the match, registered exactly one assist.
C9_OneAssistPerMatch ==
    (IsSome(last) /\ Unwrap(last).type # None /\ pc # "panic") => Unwrap(last).added = 1

(***************************************************************************)
(* C10.  `set_len` among other statements, as in the test convert_vec_1.   *)
(***************************************************************************)
\* C10: when the block holds `<buf>.set_len(<n>);` and other statements, a `let`
\* statement holding `Vec::with_capacity` stands before the block and nothing follows
\* the block, the assist returns with an assist registered that replaces that `let`
\* statement with `let mut <buf> = vec![0; <n>];` and deletes only the range of the
\* `set_len` statement.
C10_TailBlockConverted ==
    \A k \in 1..Len(RegionStmts) :
        (pc = "done" /\ Len(RegionStmts) > 1 /\ IsMethodStmt(RegionStmts[k], "set_len")
         /\ After = <<>> /\ \E l \in ToSet(Before) : IsCapacityLet(l))
            => \E i \in 1..Len(acc) : \E l \in ToSet(Before) :
                   /\ IsCapacityLet(l)
                   /\ acc[i] = Assist(TextRange(RegionStmts[k]),
                                      <<Delete(TextRange(RegionStmts[k])),
                                        Replace(TextRange(l),
                                                "let mut " \o SetLenBuf(RegionStmts[k])
                                                \o " = vec![0; "
                                                \o SetLenCount(RegionStmts[k]) \o "];")>>)

(***************************************************************************)
(* C11.  A `Vec::with_capacity` binding and no `set_len` statement.        *)
(***************************************************************************)
\* s is `<recv>.set_len(<n>)`, with or without its `;`
C11_IsSetLen(s) ==
    \/ IsMethodStmt(s, "set_len")
    \/ /\ Kind(s) = "METHOD_CALL_EXPR"
       /\ \E n \in ToSet(Children(s)) : Kind(n) = "NAME_REF" /\ TextOf(n) = "set_len"

C11_NoSetLen ==
    /\ \E l \in ToSet(Before) : IsCapacityLet(l)
    /\ \E r \in ToSet(After) : ReadsBuffer(r, "buffer")
    /\ \A s \in ToSet(RegionStmts) : ~C11_IsSetLen(s)

\* C11: with a `let` statement binding `Vec::with_capacity` before the unsafe block, a
\* statement reading the buffer after it and no `set_len` statement in it, no turn of the loop has check_convert_type
\* return the uninitialized-buffer idiom and no assist is registered.
C11_NoSetLenNoMatch ==
    C11_NoSetLen
        => /\ acc = <<>>
           /\ IsSome(last) => Unwrap(last).type # Some("UnitializedVec")

(***************************************************************************)
(* C13.  The preview and the edit, for the uninitialized-buffer idiom.     *)
(***************************************************************************)
\* the handler has returned from the arm of a match
HoverMatch == pc = "hdone" /\ IsSome(last) /\ Unwrap(last).type # None

\* what the assist registers for the trigger t of the uninitialized-buffer idiom
C13_Edit(t) == convert_to_auto_vec_initialization(<<>>, t, unsafe_range, unsafe_expr)

\* the `let` statement an assist of that idiom replaces
C13_Companion(assist) ==
    CHOOSE p \in ToSet(SiblingsPrev(Unwrap(Parent(unsafe_expr)))) :
        TextRange(p) = assist.ops[2].range

\* C13: when the handler returns for a trigger of the uninitialized-buffer idiom, it
\* returns a preview if and only if the assist registers an edit for that trigger, and
\* the preview then shows the statement the edit replaces as removed and the text the
\* edit puts in its place as the modified code.
C13_PreviewIffEdit ==
    (HoverMatch /\ Unwrap(last).type = Some("UnitializedVec"))
        => LET e == C13_Edit(Unwrap(last).node)
           IN /\ IsSome(hover.result) <=> e # <<>>
              /\ e # <<>>
                    => /\ Contains(Unwrap(hover.result),
                                   generate_modify \o Added(e[1].ops[2].text))
                       /\ Contains(Unwrap(hover.result),
                                   Removed(TextOf(C13_Companion(e[1]))))

(***************************************************************************)
(* C14.  Scanning goes on after a discarded candidate.                     *)
(***************************************************************************)
\* the preview of the descendant t when it is a trigger of the uninitialized-buffer
\* idiom, None otherwise
C14_Display(t) ==
    IF check_convert_type(t, unsafe_expr) = Some("UnitializedVec")
    THEN display_suggestion_uninitialized_vec(t, unsafe_expr) ELSE None

\* C14: when the handler returns and a descendant of the unsafe block is a trigger of
\* the uninitialized-buffer idiom that has a preview, the handler returns a preview,
\* whatever candidates were discarded before that descendant.
C14_LaterMatchPreviewed ==
    (pc = "hdone" /\ hover.config /\ \E i \in 1..Len(nodes) : IsSome(C14_Display(nodes[i])))
        => (IsSome(hover.result) /\ hover.result # Some(KeywordMarkup))

(***************************************************************************)
(* C15.  The fallback to the documentation of the keyword.                 *)
(***************************************************************************)
\* C15: with keyword documentation switched on and found in the standard library, the
\* handler never returns without a hover result: when it has no preview it returns the
\* documentation of the keyword.
C15_FallsBackToKeyword ==
    (pc = "hdone" /\ hover.config /\ hover.std) => IsSome(hover.result)

(***************************************************************************)
(* C16.  The two parts of a preview.                                       *)
(***************************************************************************)
\* C16: a preview returned for a match holds the unsafe statement with the removal
\* marker and, with the addition marker, a replacement that is not empty.
C16_TwoParts ==
    (HoverMatch /\ IsSome(hover.result))
        => /\ Contains(Unwrap(hover.result),
                       "**" \o Fence \o "---" \o Fence \o "** **~~" \o Fence \o "unsafe { ")
           /\ Contains(Unwrap(hover.result),
                       "**" \o Fence \o "+++" \o Fence \o "** **" \o Fence)
           /\ ~Contains(Unwrap(hover.result), Added(""))

(***************************************************************************)
(* C17.  No partial edit.                                                  *)
(***************************************************************************)
\* the assist removes the range it is registered for and puts a text in place of it or
\* in front of the block
C17_Complete(assist) ==
    /\ \E i \in 1..Len(assist.ops) :
           assist.ops[i].op \in {"delete", "replace"} /\ assist.ops[i].range = assist.target
    /\ \E i \in 1..Len(assist.ops) :
           assist.ops[i].op \in {"replace", "insert"} /\ assist.ops[i].text # ""

\* the statement of the call the trigger t names, None when the call stands in none
C17_Statement(t) ==
    IF ~IsSome(Parent(t)) THEN None
    ELSE ParentAs(Unwrap(Parent(t)), {"EXPR_STMT", "LET_STMT"})

\* a structural precondition of the planner of the idiom cannot be resolved for t
C17_Unresolved(t, type) ==
    \/ ~IsSome(C17_Statement(t))
    \/ /\ type # Some("UnitializedVec")
       /\ ~check_single_expr(Unwrap(C17_Statement(t)))
       /\ ~IsSome(PrevSibling(unsafe_expr))
    \/ /\ type = Some("UnitializedVec")
       /\ \/ ~IsSome(FirstCapacity(SiblingsPrev(Holder)))
          \/ Kind(Unwrap(FirstCapacity(SiblingsPrev(Holder)))) # "LET_STMT"

\* C17: every step either leaves the registered assists as they are or appends one
\* assist that carries the whole edit (the removal of its range together with the
\* replacement or the insertion); when the call of the trigger has no enclosing
\* statement, the block has no previous sibling to anchor the insertion or the nearest
\* `Vec::with_capacity` sibling is no `let` statement, the step leaves them as they are.
C17_NoPartialEdit ==
    [][\/ acc' = acc
       \/ /\ pc = "scan" /\ idx <= Len(nodes)
          /\ ~C17_Unresolved(target_expr, unsafe_type)
          /\ Len(acc') = Len(acc) + 1
          /\ SubSeq(acc', 1, Len(acc)) = acc
          /\ C17_Complete(acc'[Len(acc')])]_vars

C17_Witness ==
    /\ IsSome(last) /\ Unwrap(last).type # None
    /\ C17_Unresolved(Unwrap(last).node, Unwrap(last).type)
    /\ Unwrap(last).added = 0
    /\ Len(acc) = 1 /\ Len(acc[1].ops) = 2

(***************************************************************************)
(* C18.  One idiom for a trigger.                                          *)
(***************************************************************************)
\* the catalog: the idioms check_convert_type tests for, and all signatures
Idioms == {"UnitializedVec", "CopyWithin", "GetUncheck", "GetUncheckMut", "CopyNonOverlap"}
Signatures == {PatternString(pat) : pat \in Idioms \cup {"SetVecCapacity"}}

\* C18 as stated: no signature is a substring of another, and the text of a node holds
\* at most one signature as a substring.
C18_ExclusiveSubstrings ==
    /\ \A x, y \in Signatures : Contains(x, y) => x = y
    /\ \A i \in 1..Len(nodes) :
           Cardinality({x \in Signatures : Contains(TextOf(nodes[i]), x)}) <= 1

\* the idioms whose test of check_convert_type the node t passes, each test taken alone
C18_Passing(t) ==
    {pat \in Idioms :
        /\ TextOf(t) = PatternString(pat)
        /\ pat = "UnitializedVec"
              => (IsSome(Parent(unsafe_expr)) /\ CompanionsFound(unsafe_expr))}

\* C18, amended: the signatures are pairwise distinct and a node passes a test when its
\* text is equal to the signature, so the node a turn handles passes the test of at most
\* one idiom and check_convert_type returns that idiom (None when there is none) in
\* whatever order the tests are made.
C18_ExclusiveEquality ==
    /\ \A p, q \in Idioms \cup {"SetVecCapacity"} :
           PatternString(p) = PatternString(q) => p = q
    /\ IsSome(last)
          => /\ Unwrap(last).type = None <=> C18_Passing(Unwrap(last).node) = {}
             /\ Unwrap(last).type # None
                   => C18_Passing(Unwrap(last).node) = {Unwrap(Unwrap(last).type)}

C18_Witness ==
    /\ IsSome(last)
    /\ TextOf(Unwrap(last).node) = "get_unchecked_mut"
    /\ Unwrap(last).type = Some("GetUncheckMut")
    /\ Contains(TextOf(Unwrap(last).node), PatternString("GetUncheck"))

(***************************************************************************)
(* C19.  The accessor decides between `get` and `get_mut`.                 *)
(***************************************************************************)
\* the method name of the call mcall
C19_Accessor(mcall) ==
    TextOf(CHOOSE n \in ToSet(Children(mcall)) : Kind(n) = "NAME_REF")

\* `let <pattern> = <receiver>.get_mut(<index>);` for get_unchecked_mut,
\* `let <pattern> = <receiver>.get(<index>);` for get_unchecked
C19_Rendering(mcall, let_expr) ==
    "let " \o TextOf(Unwrap(LetPat(let_expr))) \o " = " \o TextOf(Unwrap(Receiver(mcall)))
    \o (IF C19_Accessor(mcall) = "get_unchecked_mut" THEN ".get_mut(" ELSE ".get(")
    \o TextOf(Unwrap(ExactlyOneArg(mcall))) \o ");"

\* C19: when the turn just taken registered an assist for the trigger of an unchecked
\* index accessor, the text the assist puts in is the binding rendered with
\* `.get_mut(` when the accessor is get_unchecked_mut and with `.get(` when it is
\* get_unchecked, and it is the text generate_get_mut returns.
C19_AccessorDecides ==
    (/\ IsSome(last) /\ Unwrap(last).added = 1
     /\ Unwrap(last).type \in {Some("GetUncheck"), Some("GetUncheckMut")})
        => LET mcall == Unwrap(Parent(Unwrap(last).node))
               let_expr == Unwrap(Parent(mcall))
               ops == acc[Len(acc)].ops
           IN /\ generate_get_mut(mcall, let_expr) = Some(C19_Rendering(mcall, let_expr))
              /\ Contains(ops[Len(ops)].text, C19_Rendering(mcall, let_expr))

(***************************************************************************)
(* C20.  The two index expressions of a range copy and their base.         *)
(***************************************************************************)
\* the call of the trigger t of a range copy, and the bases of the index expressions of
\* its arguments 0 and 1
C20_Call(t) == Unwrap(ParentAs(t, {"CALL_EXPR"}))
C20_Base(mcall, n) == TextOf(Unwrap(IndexBase(Unwrap(GrandChildIndex(mcall, n)))))

\* C20: when the turn just taken handled the trigger of a range copy whose arguments 0
\* and 1 index two different bases, no `copy_within` text is generated for the call
\* and the turn registers nothing.
C20_SameBaseOnly ==
    (/\ IsSome(last) /\ Unwrap(last).type = Some("CopyWithin")
     /\ IsSome(collect_ptr_cpy_info(C20_Call(Unwrap(last).node)))
     /\ C20_Base(C20_Call(Unwrap(last).node), 0) # C20_Base(C20_Call(Unwrap(last).node), 1))
        => /\ generate_copywithin_format(C20_Call(Unwrap(last).node)) = None
           /\ Unwrap(last).added = 0

(***************************************************************************)
(* C21.  How a generated text ends.                                        *)
(***************************************************************************)
\* text ends with suffix
EndsWith(text, suffix) ==
    /\ Len(text) >= Len(suffix)
    /\ SubSeq(text, Len(text) - Len(suffix) + 1, Len(text)) = suffix

\* C21: the text every registered assist puts into the document ends its statement
\* with `;` (a line break may follow), and the text an assist inserts above the block
\* ends with a line break.
C21_TerminatorAndLineBreak ==
    \A i \in 1..Len(acc) : \A j \in 1..Len(acc[i].ops) :
        /\ acc[i].ops[j].op \in {"replace", "insert"}
              => (EndsWith(acc[i].ops[j].text, ";") \/ EndsWith(acc[i].ops[j].text, ";\n"))
        /\ acc[i].ops[j].op = "insert" => EndsWith(acc[i].ops[j].text, "\n")

(***************************************************************************)
(* C22.  The edits of two matches of one block.                            *)
(***************************************************************************)
\* the text the assist puts into the document
C22_Text(assist) == assist.ops[Len(assist.ops)].text

\* C22: with two buffers each bound with `Vec::with_capacity` before the block, the
\* ranges that two assists registered for matches on the two buffers (they put in
\* different texts) delete or replace are pairwise disjoint.
C22_EditsDisjoint ==
    \A i, j \in 1..Len(acc) :
        (/\ i # j /\ C22_Text(acc[i]) # C22_Text(acc[j])
         /\ Cardinality({LetName(l) : l \in {x \in ToSet(Before) : IsCapacityLet(x)}}) = 2)
            => \A a \in 1..Len(acc[i].ops) : \A b \in 1..Len(acc[j].ops) :
                   ~Overlaps(acc[i].ops[a].range, acc[j].ops[b].range)

(***************************************************************************)
(* C23.  The two ranges of an edit of the uninitialized-buffer idiom.      *)
(***************************************************************************)
\* C23: in every assist registered for the uninitialized-buffer idiom the range deleted
\* and the range replaced are disjoint, and the statement replaced is not the statement
\* that encloses the unsafe block.
C23_DeleteAndReplaceDisjoint ==
    \A i \in 1..Len(acc) :
        (Len(acc[i].ops) = 2 /\ acc[i].ops[2].op = "replace")
            => /\ ~Overlaps(acc[i].ops[1].range, acc[i].ops[2].range)
               /\ acc[i].ops[2].range # TextRange(Unwrap(Parent(unsafe_expr)))

(***************************************************************************)
(* C24.  The variable of the `let` statement replaced.                     *)
(***************************************************************************)
\* the statement before the block that the assist replaces
C24_Replaced(assist) == CHOOSE p \in ToSet(Before) : TextRange(p) = assist.ops[2].range

\* C24: when the turn just taken registered an assist for a `set_len` trigger, the
\* `let` statement the assist replaces binds the variable that is the receiver of the
\* `set_len` call.
C24_SameVariable ==
    (/\ IsSome(last) /\ Unwrap(last).added = 1
     /\ Unwrap(last).type = Some("UnitializedVec"))
        => LetName(C24_Replaced(acc[Len(acc)]))
               = TextOf(Unwrap(Receiver(Unwrap(Parent(Unwrap(last).node)))))

(***************************************************************************)
(* C25.  What an edit removes lies in the unsafe block.                    *)
(***************************************************************************)
\* r is the range of the whole block or of one statement of it
C25_BlockOrStatement(r) ==
    /\ Within(r, TextRange(unsafe_expr))
    /\ \/ r = TextRange(unsafe_expr)
       \/ \E st \in ToSet(RegionStmts) : r = TextRange(st)

\* C25: every delete operation of every registered assist, and the replace operation of
\* an assist that has no delete, covers the range of the whole unsafe block or of one
\* statement inside it.
C25_DeletesInsideBlock ==
    \A i \in 1..Len(acc) :
        /\ C25_BlockOrStatement(RemovedRange(acc[i]))
        /\ \A j \in 1..Len(acc[i].ops) :
               acc[i].ops[j].op = "delete" => C25_BlockOrStatement(acc[i].ops[j].range)

C25_Witness ==
    /\ pc = "done" /\ Len(acc) = 2
    /\ acc[1].ops[1].op = "delete" /\ acc[1].ops[1].range = TextRange(RegionStmts[1])
    /\ acc[2].ops[1].op = "delete" /\ acc[2].ops[1].range = TextRange(RegionStmts[2])

(***************************************************************************)
(* C26.  Where the backward scan of the planner stops.                     *)
(***************************************************************************)
\* the sibling nearest to the unsafe block, the statement of the block included, whose
\* text holds `Vec::with_capacity`
C26_Stop ==
    LET sibs == SiblingsPrev(Unwrap(Parent(unsafe_expr)))
        hits == {i \in 1..Len(sibs) : Contains(TextOf(sibs[i]), "Vec::with_capacity")}
    IN sibs[CHOOSE i \in hits : \A j \in hits : i <= j]

\* the turn just taken handled a `set_len` trigger that is the method of a call standing
\* in an expression statement
C26_Planned ==
    /\ IsSome(last) /\ Unwrap(last).type = Some("UnitializedVec")
    /\ IsSome(ParentAs(Unwrap(last).node, {"METHOD_CALL_EXPR"}))
    /\ IsSome(ParentAs(Unwrap(Parent(Unwrap(last).node)), {"EXPR_STMT"}))

\* C26: for such a trigger, when the nearest sibling holding `Vec::with_capacity` is a
\* `let` statement the turn registers one assist, which replaces that statement; when
\* it is no `let` statement the turn registers nothing, whatever stands farther back.
C26_ScanStopsAtNearest ==
    C26_Planned
        => IF Kind(C26_Stop) = "LET_STMT"
           THEN /\ Unwrap(last).added = 1
                /\ acc[Len(acc)].ops[2] = Replace(TextRange(C26_Stop),
                                                  acc[Len(acc)].ops[2].text)
           ELSE Unwrap(last).added = 0

C26_Witness ==
    /\ C26_Planned
    /\ C26_Stop \in ToSet(Before) /\ Kind(C26_Stop) # "LET_STMT"
    /\ \E l \in ToSet(Before) :
           IsCapacityLet(l) /\ TextRange(l)[2] <= TextRange(C26_Stop)[1]
    /\ Unwrap(last).added = 0 /\ acc = <<>>

====
